---- MODULE Spec2Model ----
(***************************************************************************)
(* Model of libabbs' APML value type and evaluated context                 *)
(* (src/libabbs/src/apml/mod.rs): VariableValue with its coercions,        *)
(* concatenation and equality, ApmlContext with its accessors, and the     *)
(* eval_source / eval_lst / eval_ast pipeline with its error wrapping.     *)
(*                                                                         *)
(* A Rust String is modelled as the sequence of its bytes, a Vec<String>   *)
(* as a sequence of such sequences, Option<T> as T or None.                *)
(***************************************************************************)
EXTENDS Integers, Sequences, FiniteSets

\* ------------------------------------------------------------------ bounds
MaxStrLen == 1
MaxArrLen == 2
MaxChain == 2
MaxStmts == 3
MaxSegs == 1
MaxCallerOps == 1

\* ------------------------------------------------------------- input sets
Byte == {"a"}
Names == {"A", "B"}
ErrPayload == {"e1", "e2"}

SeqsUpTo(S, n) == UNION {[1..k -> S] : k \in 0..n}

\* --------------------------------------------------------- VariableValue
String(text) == [tag |-> "String", text |-> text]
Array(els) == [tag |-> "Array", els |-> els]
None == [tag |-> "None"]

VariableValue(maxStr, maxArr) ==
    {String(s) : s \in SeqsUpTo(Byte, maxStr)}
        \cup {Array(xs) : xs \in SeqsUpTo(SeqsUpTo(Byte, maxStr), maxArr)}

Value == VariableValue(MaxStrLen, MaxArrLen)

RECURSIVE join_no_separator(_)
join_no_separator(els) ==
    IF els = <<>> THEN <<>> ELSE els[1] \o join_no_separator(Tail(els))

\* [String]::join(" ")
RECURSIVE join(_)
join(els) ==
    IF els = <<>> THEN <<>>
    ELSE IF Len(els) = 1 THEN els[1]
    ELSE els[1] \o <<" ">> \o join(Tail(els))

as_string(v) == IF v.tag = "String" THEN v.text ELSE join(v.els)

into_string(v) == IF v.tag = "String" THEN v.text ELSE join(v.els)

as_array_keep_empty(v) == IF v.tag = "String" THEN <<v.text>> ELSE v.els

as_array(v) ==
    IF v.tag = "String"
    THEN (IF v.text = <<>> THEN <<>> ELSE <<v.text>>)
    ELSE v.els

into_array(v) ==
    IF v.tag = "String"
    THEN (IF v.text = <<>> THEN <<>> ELSE <<v.text>>)
    ELSE v.els

len(v) == IF v.tag = "String" THEN Len(v.text) ELSE Len(v.els)

is_empty_text_form(v) == as_string(v) = <<>>

is_empty(v) == IF v.tag = "String" THEN v.text = <<>> ELSE v.els = <<>>

default_empty_array == Array(<<>>)

default == String(<<>>)

add_promote_to_array(self, rhs) ==
    IF self.tag = "String" /\ rhs.tag = "String"
    THEN String(self.text \o into_string(rhs))
    ELSE Array(into_array(self) \o into_array(rhs))

add(self, rhs) ==
    IF self.tag = "String"
    THEN String(self.text \o into_string(rhs))
    ELSE Array(self.els \o into_array(rhs))

From(text) == String(text)

eq_by_text_form(v, w) == as_string(v) = as_string(w)

\* #[derive(PartialEq)]: same variant and equal payload
eq(v, w) ==
    /\ v.tag = w.tag
    /\ IF v.tag = "String" THEN v.text = w.text ELSE v.els = w.els

\* ------------------------------------------------------------ ApmlContext
ApmlContext_default == [variables |-> [n \in Names |-> None]]

get(self, name) == self.variables[name]

read(self, name) ==
    IF self.variables[name] = None THEN default ELSE self.variables[name]

get_mut(self, name) == self.variables[name]

remove_keep_entry(self, name) ==
    [ctx |-> self, ret |-> self.variables[name]]

remove(self, name) ==
    [ctx |-> [variables |-> [self.variables EXCEPT ![name] = None]],
     ret |-> self.variables[name]]

insert_keep_existing(self, name, value) ==
    IF self.variables[name] = None
    THEN [variables |-> [self.variables EXCEPT ![name] = value]]
    ELSE self

insert(self, name, value) ==
    [variables |-> [self.variables EXCEPT ![name] = value]]

keys(self) == {n \in Names : self.variables[n] # None}

\* -------------------------------------------------------------- ApmlError
From_ParseError(e) == [kind |-> "Parse", inner |-> e]

From_EmitError_as_parse(e) == [kind |-> "Parse", inner |-> e]

From_EmitError(e) == [kind |-> "Emit", inner |-> e]

From_EvalError(e) == [kind |-> "Eval", inner |-> e]

\* ------------------------------------------------- eval (semantic tree)
\* The evaluator as the language description gives it: a statement is
\* NAME=segments; a segment is literal text, $NAME / ${NAME}, ${NAME[@]}, or
\* an expansion form the evaluator rejects.
LitSeg(text) == [kind |-> "Lit", text |-> text]
VarSeg(name) == [kind |-> "Var", name |-> name]
ArrSeg(name) == [kind |-> "Arr", name |-> name]
BadSeg(e) == [kind |-> "Bad", inner |-> e]

Segment ==
    {LitSeg(<<"a">>)} \cup {VarSeg(n) : n \in Names}
        \cup {ArrSeg(n) : n \in Names} \cup {BadSeg(e) : e \in ErrPayload}

SegLists == UNION {[1..k -> Segment] : k \in 1..MaxSegs}

Statement == {[name |-> n, segs |-> ss] : n \in Names, ss \in SegLists}

Ok(value) == [ok |-> TRUE, value |-> value]
Err(e) == [ok |-> FALSE, inner |-> e]

eval_segment(apml, seg) ==
    CASE seg.kind = "Lit" -> Ok(From(seg.text))
      [] seg.kind = "Var" -> Ok(read(apml, seg.name))
      [] seg.kind = "Arr" -> Ok(Array(as_array(read(apml, seg.name))))
      [] seg.kind = "Bad" -> Err(seg.inner)

\* segments are evaluated left to right and combined with `+`
RECURSIVE eval_fold(_, _, _, _)
eval_fold(apml, acc, segs, i) ==
    IF i > Len(segs) THEN Ok(acc)
    ELSE LET r == eval_segment(apml, segs[i])
         IN  IF r.ok THEN eval_fold(apml, add(acc, r.value), segs, i + 1)
             ELSE r

eval_value(apml, segs) ==
    LET r == eval_segment(apml, segs[1])
    IN  IF r.ok THEN eval_fold(apml, r.value, segs, 2) ELSE r

\* one statement: evaluate the value expression, then bind the name
eval_statement(apml, st) ==
    LET r == eval_value(apml, st.segs)
    IN  IF r.ok THEN Ok(insert(apml, st.name, r.value)) ELSE r

\* ------------------------------------------------------------------ state
VARIABLES
    entry,    \* entry point the caller used
    pc,       \* position in the pipeline
    ran,      \* stages started so far, in order
    raised,   \* the error the first failing stage produced
    result,   \* what the entry point returned
    apml,     \* the ApmlContext (NoCtx before creation / after drop)
    lastw,    \* per name: the most recent mutating operation
    last,     \* the most recent operation with its arguments and result
    nst,      \* statements evaluated
    ncall,    \* caller operations performed on the returned context
    first,    \* leftmost operand of a chain of `+`
    prev,     \* left operand of the most recent `+`
    rhs,      \* right operand of the most recent `+`
    acc,      \* result of the most recent `+`
    nadd,     \* number of `+` applied
    pa,       \* probed value
    pb,       \* second probed value
    obs       \* result of the most recent probe

runvars == <<entry, pc, ran, raised, result, apml, lastw, last, nst, ncall>>
addvars == <<first, prev, rhs, acc, nadd>>
probevars == <<pa, pb, obs>>
vars == <<entry, pc, ran, raised, result, apml, lastw, last, nst, ncall,
          first, prev, rhs, acc, nadd, pa, pb, obs>>

NoCtx == [tag |-> "NoCtx"]
NoErr == [stage |-> "none"]
Pending == [tag |-> "Pending"]
Unit == [tag |-> "Unit"]
NoWrite == [op |-> "none"]

Stages == <<"parse", "emit", "eval">>

FirstStage(e) ==
    CASE e = "eval_source" -> 1
      [] e = "eval_lst" -> 2
      [] e = "eval_ast" -> 3

StageOutcome == {[ok |-> TRUE]} \cup {Err(e) : e \in ErrPayload}

\* values a caller passes to insert or stores through get_mut
InsertValue ==
    {String(<<>>), String(<<"a">>), Array(<<>>), Array(<< <<"a">> >>)}

InitRunIdle ==
    /\ entry = "none" /\ pc = "idle" /\ ran = <<>> /\ raised = NoErr
    /\ result = Pending /\ apml = NoCtx /\ lastw = [n \in Names |-> NoWrite]
    /\ last = [op |-> "none"] /\ nst = 0 /\ ncall = 0

InitAddIdle ==
    /\ first = default /\ prev = default /\ rhs = default /\ acc = default
    /\ nadd = 0

InitProbeIdle ==
    /\ pa = default /\ pb = default /\ obs = [op |-> "none"]

\* ----------------------------------------------------- pipeline (Spec)
Init ==
    /\ entry \in {"eval_source", "eval_lst", "eval_ast"}
    /\ pc = Stages[FirstStage(entry)]
    /\ ran = <<>> /\ raised = NoErr /\ result = Pending /\ apml = NoCtx
    /\ lastw = [n \in Names |-> NoWrite]
    /\ last = [op |-> "none"] /\ nst = 0 /\ ncall = 0
    /\ InitAddIdle /\ InitProbeIdle

\* eval_source: ApmlLst::parse(src)? then eval_lst
eval_source ==
    /\ pc = "parse"
    /\ ran' = Append(ran, "parse")
    /\ last' = [op |-> "parse"]
    /\ \E o \in StageOutcome :
          \/ /\ o.ok
             /\ pc' = "emit"
             /\ UNCHANGED <<raised, result>>
          \/ /\ ~o.ok
             /\ raised' = [stage |-> "parse", inner |-> o.inner]
             /\ result' = [tag |-> "Err", err |-> From_ParseError(o.inner)]
             /\ pc' = "failed"
    /\ UNCHANGED <<entry, apml, lastw, nst, ncall>>
    /\ UNCHANGED addvars /\ UNCHANGED probevars

\* eval_lst: ApmlAst::emit_from(lst)? then eval_ast
eval_lst ==
    /\ pc = "emit"
    /\ ran' = Append(ran, "emit")
    /\ last' = [op |-> "emit"]
    /\ \E o \in StageOutcome :
          \/ /\ o.ok
             /\ pc' = "eval"
             /\ UNCHANGED <<raised, result>>
          \/ /\ ~o.ok
             /\ raised' = [stage |-> "emit", inner |-> o.inner]
             /\ result' = [tag |-> "Err", err |-> From_EmitError(o.inner)]
             /\ pc' = "failed"
    /\ UNCHANGED <<entry, apml, lastw, nst, ncall>>
    /\ UNCHANGED addvars /\ UNCHANGED probevars

\* eval_ast: let mut apml = ApmlContext::default();
eval_ast_begin ==
    /\ pc = "eval"
    /\ apml = NoCtx
    /\ apml' = ApmlContext_default
    /\ ran' = Append(ran, "eval")
    /\ last' = [op |-> "create"]
    /\ UNCHANGED <<entry, pc, raised, result, lastw, nst, ncall>>
    /\ UNCHANGED addvars /\ UNCHANGED probevars

\* eval_ast: eval::eval_ast(&mut apml, ast)?, one statement of the tree at a
\* time; on Err the `?` converts the EvalError, returns, and apml is dropped
eval_ast_stmt(st) ==
    /\ pc = "eval"
    /\ apml # NoCtx
    /\ nst < MaxStmts
    /\ nst' = nst + 1
    /\ LET r == eval_statement(apml, st)
       IN  \/ /\ r.ok
              /\ apml' = r.value
              /\ lastw' = [lastw EXCEPT
                              ![st.name] = [op |-> "insert",
                                            value |-> get(r.value, st.name)]]
              /\ last' = [op |-> "assign", name |-> st.name,
                          segs |-> st.segs, before |-> apml]
              /\ UNCHANGED <<pc, raised, result>>
           \/ /\ ~r.ok
              /\ raised' = [stage |-> "eval", inner |-> r.inner]
              /\ result' = [tag |-> "Err", err |-> From_EvalError(r.inner)]
              /\ apml' = NoCtx
              /\ pc' = "failed"
              /\ last' = [op |-> "evalerr", name |-> st.name,
                          segs |-> st.segs, before |-> apml]
              /\ UNCHANGED lastw
    /\ UNCHANGED <<entry, ran, ncall>>
    /\ UNCHANGED addvars /\ UNCHANGED probevars

\* eval_ast: Ok(apml)
eval_ast_end ==
    /\ pc = "eval"
    /\ apml # NoCtx
    /\ result' = [tag |-> "Ok"]
    /\ pc' = "caller"
    /\ last' = [op |-> "return"]
    /\ UNCHANGED <<entry, ran, raised, apml, lastw, nst, ncall>>
    /\ UNCHANGED addvars /\ UNCHANGED probevars

\* ------------------------------------------ the caller's use of a context
CallerFrame ==
    /\ UNCHANGED <<entry, pc, ran, raised, result, nst>>
    /\ UNCHANGED addvars /\ UNCHANGED probevars

CallerGet(name) ==
    /\ pc = "caller"
    /\ last' = [op |-> "get", name |-> name, before |-> apml,
                ret |-> get(apml, name)]
    /\ UNCHANGED <<apml, lastw>>
    /\ CallerFrame

CallerRead_or_insert(name) ==
    /\ pc = "caller"
    /\ last' = [op |-> "read", name |-> name, before |-> apml,
                ret |-> read(apml, name)]
    /\ apml' = insert(apml, name, read(apml, name))
    /\ UNCHANGED lastw
    /\ CallerFrame

CallerRead(name) ==
    /\ pc = "caller"
    /\ last' = [op |-> "read", name |-> name, before |-> apml,
                ret |-> read(apml, name)]
    /\ UNCHANGED <<apml, lastw>>
    /\ CallerFrame

CallerKeys ==
    /\ pc = "caller"
    /\ last' = [op |-> "keys", before |-> apml, ret |-> keys(apml)]
    /\ UNCHANGED <<apml, lastw>>
    /\ CallerFrame

\* get_mut hands out `&mut VariableValue`; the caller stores through it
CallerGetMut(name, value) ==
    /\ pc = "caller"
    /\ IF get_mut(apml, name) = None
       THEN /\ last' = [op |-> "get_mut", name |-> name, before |-> apml,
                        ret |-> None]
            /\ UNCHANGED <<apml, lastw>>
       ELSE /\ last' = [op |-> "get_mut", name |-> name, before |-> apml,
                        ret |-> get_mut(apml, name), stored |-> value]
            /\ apml' = [variables |-> [apml.variables EXCEPT ![name] = value]]
            /\ lastw' = [lastw EXCEPT
                            ![name] = [op |-> "write", value |-> value]]
    /\ CallerFrame

CallerRemove(name) ==
    /\ pc = "caller"
    /\ LET r == remove(apml, name)
       IN  /\ apml' = r.ctx
           /\ last' = [op |-> "remove", name |-> name, before |-> apml,
                       ret |-> r.ret]
    /\ lastw' = [lastw EXCEPT ![name] = [op |-> "remove"]]
    /\ CallerFrame

CallerInsert(name, value) ==
    /\ pc = "caller"
    /\ apml' = insert(apml, name, value)
    /\ last' = [op |-> "insert", name |-> name, value |-> value,
                before |-> apml, ret |-> Unit]
    /\ lastw' = [lastw EXCEPT ![name] = [op |-> "insert", value |-> value]]
    /\ CallerFrame

CallerOp ==
    \/ \E n \in Names : CallerGet(n)
    \/ \E n \in Names : CallerRead(n)
    \/ CallerKeys
    \/ \E n \in Names, v \in InsertValue : CallerGetMut(n, v)
    \/ \E n \in Names : CallerRemove(n)
    \/ \E n \in Names, v \in InsertValue : CallerInsert(n, v)

Next ==
    \/ eval_source
    \/ eval_lst
    \/ eval_ast_begin
    \/ \E st \in Statement : eval_ast_stmt(st)
    \/ eval_ast_end
    \/ (ncall < MaxCallerOps /\ ncall' = ncall + 1 /\ CallerOp)

Spec == Init /\ [][Next]_vars

\* ------------------------------- a context the caller owns (SpecCtx)
InitCtx ==
    /\ entry = "default" /\ pc = "caller" /\ ran = <<>> /\ raised = NoErr
    /\ result = Pending /\ apml = ApmlContext_default
    /\ lastw = [n \in Names |-> NoWrite]
    /\ last = [op |-> "create"] /\ nst = 0 /\ ncall = 0
    /\ InitAddIdle /\ InitProbeIdle

NextCtx == ncall' = ncall /\ CallerOp

SpecCtx == InitCtx /\ [][NextCtx]_vars

\* ------------------------------------------- chains of `+` (SpecValue)
TypeSamples ==
    {String(<<>>), String(<<"a">>), Array(<<>>), Array(<< <<"a">>, <<>> >>)}

InitValue ==
    /\ first \in Value
    /\ acc = first /\ prev = first /\ rhs = default /\ nadd = 0
    /\ InitRunIdle /\ InitProbeIdle

AddNext(r) ==
    /\ nadd < MaxChain
    /\ prev' = acc
    /\ rhs' = r
    /\ acc' = add(acc, r)
    /\ nadd' = nadd + 1
    /\ UNCHANGED first
    /\ UNCHANGED runvars /\ UNCHANGED probevars

\* the first `+` takes any bounded Value on its right; the later ones of a
\* chain take one Value of each shape (type, empty or not)
Operands(n) == IF n = 0 THEN Value ELSE TypeSamples

NextValue == \E r \in Operands(nadd) : AddNext(r)

SpecValue == InitValue /\ [][NextValue]_vars

\* ------------------------------- ==, len, is_empty on values (SpecProbe)
InitProbe ==
    /\ pa \in Value /\ pb \in Value /\ obs = [op |-> "none"]
    /\ InitRunIdle /\ InitAddIdle

Compare ==
    /\ obs' = [op |-> "eq", res |-> eq(pa, pb)]
    /\ UNCHANGED <<pa, pb>>
    /\ UNCHANGED runvars /\ UNCHANGED addvars

\* pb := VariableValue::String(pa.as_string())
TextForm ==
    /\ pb' = String(as_string(pa))
    /\ obs' = [op |-> "text"]
    /\ UNCHANGED pa
    /\ UNCHANGED runvars /\ UNCHANGED addvars

\* pb := VariableValue::default()
TakeDefault ==
    /\ pb' = default
    /\ obs' = [op |-> "default"]
    /\ UNCHANGED pa
    /\ UNCHANGED runvars /\ UNCHANGED addvars

Measure ==
    /\ obs' = [op |-> "len", len |-> len(pa), empty |-> is_empty(pa)]
    /\ UNCHANGED <<pa, pb>>
    /\ UNCHANGED runvars /\ UNCHANGED addvars

NextProbe == Compare \/ TextForm \/ TakeDefault \/ Measure

SpecProbe == InitProbe /\ [][NextProbe]_vars

\* ================================================================ claims

\* C1: L + R has the type of L, and a left-nested chain V1 + V2 + ... + Vn
\* has the type of V1 whatever the types of V2..Vn.
C1_ConcatTypeLaw ==
    nadd > 0 => acc.tag = prev.tag /\ acc.tag = first.tag

C1_Witness ==
    /\ nadd = 2
    /\ first.tag = "String" /\ prev # first
    /\ rhs.tag = "Array" /\ acc.tag = "String"

\* C2: String(s) + R is String(s followed by R's text), an Array's text
\* being its elements separated by exactly one space; Array(xs) + R is
\* Array(xs followed by R's elements), a nonempty String counting as one
\* element and an empty String as none.  s and xs stay as a prefix.
C2_ConcatResult ==
    LET RECURSIVE Offset(_, _)
        Offset(xs, i) ==
            IF i = 1 THEN 0 ELSE Offset(xs, i - 1) + Len(xs[i - 1]) + 1
        SpaceSeparated(xs, t) ==
            /\ Len(t) = IF xs = <<>> THEN 0
                        ELSE Offset(xs, Len(xs)) + Len(xs[Len(xs)])
            /\ \A i \in 1..Len(xs) :
                  SubSeq(t, Offset(xs, i) + 1, Offset(xs, i) + Len(xs[i]))
                      = xs[i]
            /\ \A i \in 1..(Len(xs) - 1) :
                  t[Offset(xs, i) + Len(xs[i]) + 1] = " "
    IN  nadd > 0 =>
          IF prev.tag = "String"
          THEN /\ acc.tag = "String"
               /\ Len(acc.text) >= Len(prev.text)
               /\ SubSeq(acc.text, 1, Len(prev.text)) = prev.text
               /\ LET suf == SubSeq(acc.text, Len(prev.text) + 1,
                                    Len(acc.text))
                  IN  IF rhs.tag = "String" THEN suf = rhs.text
                      ELSE SpaceSeparated(rhs.els, suf)
          ELSE /\ acc.tag = "Array"
               /\ Len(acc.els) >= Len(prev.els)
               /\ SubSeq(acc.els, 1, Len(prev.els)) = prev.els
               /\ LET suf == SubSeq(acc.els, Len(prev.els) + 1,
                                    Len(acc.els))
                  IN  IF rhs.tag = "Array" THEN suf = rhs.els
                      ELSE IF rhs.text = <<>> THEN suf = <<>>
                      ELSE suf = <<rhs.text>>

C2_Witness ==
    /\ nadd > 0
    /\ prev = String(<<"a">>)
    /\ rhs = Array(<< <<"a">>, <<"a">> >>)
    /\ acc = String(<<"a", "a", " ", "a">>)

\* C3 as stated: when a name is assigned a second time, its value in the
\* Context is what evaluating the later assignment alone would give.
C3_LaterAssignmentAlone ==
    (last.op = "assign" /\ last.before.variables[last.name] # None)
        => apml.variables[last.name]
              = eval_value(ApmlContext_default, last.segs).value

\* C3 amended: an assignment binds its name to its expression evaluated in
\* the Context built by the statements before it (its own expansions and the
\* statements in between still see the earlier value), overwrites the earlier
\* value, leaves other names alone, and the Context holds for each name only
\* the value of its most recent assignment.
C3_LastWriteWins ==
    /\ last.op = "assign" =>
          /\ apml.variables[last.name]
                = eval_value(last.before, last.segs).value
          /\ \A m \in Names \ {last.name} :
                apml.variables[m] = last.before.variables[m]
          /\ \A n \in Names :
                (last.segs = <<VarSeg(n)>> /\ last.before.variables[n] # None)
                    => apml.variables[last.name] = last.before.variables[n]
    /\ (pc = "eval" /\ apml # NoCtx) =>
          \A n \in Names :
             apml.variables[n]
                = IF lastw[n].op = "insert" THEN lastw[n].value ELSE None

C3_Witness ==
    /\ last.op = "assign"
    /\ last.before.variables[last.name] # None
    /\ \E i \in 1..Len(last.segs) :
          last.segs[i] \in {VarSeg(last.name), ArrSeg(last.name)}
    /\ apml.variables[last.name] # last.before.variables[last.name]
    /\ apml.variables[last.name]
          # eval_value(ApmlContext_default, last.segs).value

\* C4: for a name N absent from a Context, read(N) is String("") (not an
\* empty Array, not an error), get(N) is absent, and read(N) does not
\* insert N or change the Context in any way.
C4_EmptyDefault ==
    /\ \A n \in Names :
          get(apml, n) = None => read(apml, n) = String(<<>>)
    /\ (last.op = "read" /\ last.before.variables[last.name] = None) =>
          /\ last.ret = String(<<>>)
          /\ last.ret # Array(<<>>)
          /\ apml = last.before
          /\ get(apml, last.name) = None
    /\ (last.op = "get" /\ last.before.variables[last.name] = None) =>
          last.ret = None

C4_Witness ==
    /\ last.op = "read"
    /\ lastw[last.name].op = "remove"
    /\ last.before.variables[last.name] = None
    /\ last.ret = String(<<>>)
    /\ \E m \in Names : apml.variables[m] # None

\* C5: the stages run in the order parse, emit, evaluate; after a failure no
\* later stage runs, the error returned has the kind of the failing stage and
\* carries that stage's error unchanged, and no Context is returned; a
\* Context is returned only when every stage succeeded.
C5_Pipeline ==
    LET KindOf(stage) ==
            CASE stage = "parse" -> "Parse"
              [] stage = "emit" -> "Emit"
              [] stage = "eval" -> "Eval"
    IN  /\ \A i \in 1..Len(ran) : ran[i] = Stages[FirstStage(entry) + i - 1]
        /\ result.tag = "Err" =>
              /\ raised # NoErr
              /\ ran[Len(ran)] = raised.stage
              /\ result.err.kind = KindOf(raised.stage)
              /\ result.err.inner = raised.inner
              /\ apml = NoCtx
              /\ pc = "failed"
        /\ result.tag = "Ok" =>
              /\ raised = NoErr
              /\ Len(ran) = 4 - FirstStage(entry)
              /\ apml # NoCtx
        /\ raised # NoErr => result.tag = "Err"

C5_Witness ==
    /\ entry = "eval_source"
    /\ ran = <<"parse", "emit">>
    /\ result.tag = "Err" /\ result.err.kind = "Emit"
    /\ apml = NoCtx

\* C6 as stated: once the run has completed and the Context is returned, no
\* operation changes it.
C6_ImmutableOnceReturned ==
    [][pc = "caller" => apml' = apml]_vars

\* C6 amended: the Context is created empty, is changed during the run only
\* by the evaluator binding one name per statement, and after it is returned
\* is left unchanged by get, read and keys; only the caller's own insert,
\* remove and get_mut change it.
C6_Lifecycle ==
    [][/\ (apml = NoCtx /\ apml' # NoCtx) => apml' = ApmlContext_default
       /\ (pc = "eval" /\ pc' = "eval" /\ apml # NoCtx /\ apml' # apml) =>
             /\ last'.op = "assign"
             /\ nst' = nst + 1
             /\ \A m \in Names \ {last'.name} :
                   apml'.variables[m] = apml.variables[m]
       /\ (pc = "caller" /\ apml' # apml) =>
             last'.op \in {"insert", "remove", "get_mut"}
       /\ (pc = "caller" /\ last'.op \in {"get", "read", "keys"}) =>
             apml' = apml]_vars

C6_Witness ==
    /\ pc = "caller" /\ result.tag = "Ok" /\ nst > 0
    /\ last.op = "get_mut"
    /\ last.ret # None
    /\ last.ret.tag # apml.variables[last.name].tag

\* C7: expanding a name absent from the Context is not an error: $NAME
\* gives an empty String and ${NAME[@]} an empty Array, a statement fails only
\* on an invalid expansion form, and a statement made only of expansions of
\* absent names (such as A="${b[@]}") binds its name to an empty value.
C7_UndefinedExpandsEmpty ==
    /\ apml # NoCtx =>
          \A n \in Names :
             get(apml, n) = None =>
                /\ eval_segment(apml, VarSeg(n)) = Ok(String(<<>>))
                /\ eval_segment(apml, ArrSeg(n)) = Ok(Array(<<>>))
    /\ last.op = "evalerr" =>
          \E i \in 1..Len(last.segs) : last.segs[i].kind = "Bad"
    /\ (/\ last.op = "assign"
        /\ \A i \in 1..Len(last.segs) :
              /\ last.segs[i].kind \in {"Var", "Arr"}
              /\ last.before.variables[last.segs[i].name] = None) =>
          /\ apml.variables[last.name] # None
          /\ is_empty(apml.variables[last.name])
          /\ last.segs[1].kind = "Arr" =>
                apml.variables[last.name] = Array(<<>>)

C7_Witness ==
    /\ last.op = "assign"
    /\ last.name = "A"
    /\ last.segs = <<ArrSeg("B")>>
    /\ last.before.variables["B"] = None
    /\ apml.variables["A"] = Array(<<>>)

\* C8: two Values are equal iff they have the same type and the same
\* content; an Array never equals the String holding its text form, and the
\* default Value does not equal the empty Array.
C8_EqStructural ==
    LET Content(v) == IF v.tag = "String" THEN v.text ELSE v.els
    IN  obs.op = "eq" =>
          /\ obs.res <=> (pa.tag = pb.tag /\ Content(pa) = Content(pb))
          /\ (pa.tag = "Array" /\ pb = String(as_string(pa))) => ~obs.res
          /\ (pa = Array(<<>>) /\ pb = default) => ~obs.res

C8_Witness ==
    /\ obs.op = "eq"
    /\ pa = Array(<< <<"a">> >>)
    /\ pb = String(<<"a">>)
    /\ obs.res = FALSE

\* C9: len is the number of bytes of a String and the number of elements of
\* an Array, is_empty holds iff len is 0, so Array([""]) is not empty.
C9_LenIsEmpty ==
    obs.op = "len" =>
       /\ obs.len = IF pa.tag = "String" THEN Cardinality(DOMAIN pa.text)
                    ELSE Cardinality(DOMAIN pa.els)
       /\ obs.empty <=> (obs.len = 0)
       /\ pa = Array(<< <<>> >>) => (~obs.empty /\ obs.len = 1)

C9_Witness ==
    /\ obs.op = "len"
    /\ pa = Array(<< <<>> >>)
    /\ as_string(pa) = <<>>
    /\ ~obs.empty

\* C10: get(N) is the value of the most recent insert(N, v) not followed by
\* remove(N), absent if there is none; insert and remove leave every other
\* name alone; remove returns the value bound just before; read(N) equals
\* get(N) when N is present.
C10_InsertRemove ==
    /\ \A n \in Names :
          /\ lastw[n].op = "insert" => get(apml, n) = lastw[n].value
          /\ lastw[n].op \in {"none", "remove"} => get(apml, n) = None
          /\ get(apml, n) # None => read(apml, n) = get(apml, n)
    /\ last.op \in {"insert", "remove"} =>
          \A m \in Names \ {last.name} :
             apml.variables[m] = last.before.variables[m]
    /\ last.op = "remove" => last.ret = last.before.variables[last.name]

C10_Witness ==
    /\ last.op = "remove"
    /\ last.ret # None
    /\ get(apml, last.name) = None
    /\ \E m \in Names :
          lastw[m].op = "insert" /\ get(apml, m) = lastw[m].value

====
